---- MODULE Spec2Model ----
(***************************************************************************)
(* Model of tuxemon/core/save.py: the save-slot store (save, load,         *)
(* open_save_file, get_index_of_latest_save) and the version 0 -> 1        *)
(* migration (upgrade_save).                                               *)
(*                                                                         *)
(* Python values are modelled as follows.                                  *)
(*   dict          a function; d[k] is the value under key k               *)
(*   str (keys, slugs of the game data)   a sequence of one-character      *)
(*                 strings, so that str.partition can be computed          *)
(*   str (field names, messages)          a TLA+ string                    *)
(*   list          a sequence                                              *)
(*   None          the value None below                                    *)
(*   a call        an outcome: Return(v) or Raise(exception name)          *)
(* A save file is a stream of encoded items; a reader has a position in    *)
(* it.  The model follows the file semantics of the Python 2 interpreters  *)
(* the module's __future__ imports target: a file opened with 'w' accepts  *)
(* the byte string cbor.dumps returns.                                     *)
(***************************************************************************)
EXTENDS Integers, Sequences, FiniteSets, TLC

VARIABLES
    files,        \* slot -> NoFile or the stream of encoded items in <SAVE_PATH><slot>.save
    cbor,         \* what `import cbor` gave this process (see CborBuilds)
    SAVE_METHOD,  \* prepare.SAVE_METHOD
    last_saved,   \* history: slot -> the record of the latest save() to it, or None
    call,         \* the latest call of the module's API since the files last changed
                  \* under it, and its outcome
    save_data,    \* the record object handed to upgrade_save (mutated in place)
    applied       \* how many times upgrade_save has run on save_data

vars == <<files, cbor, SAVE_METHOD, last_saved, call, save_data, applied>>

----------------------------------------------------------------------------
(* Bounds *)

MaxQty == 2          \* item quantities are 1..MaxQty
MaxMinute == 1       \* datetime.now() falls on minute 0..MaxMinute of one hour
MaxApply == 2        \* upgrade_save is applied at most MaxApply times to one record

(* Program constants *)

NumSlots == 3        \* range(3) in get_index_of_latest_save
CurrentVersion == 1  \* save_data['version'] = 1 in get_save_data

Slots == 1..NumSlots

----------------------------------------------------------------------------
(* Python values *)

None == [type |-> "NoneType"]
Index(n) == [type |-> "int", n |-> n]
EmptyDict == [k \in {} |-> 0]
EmptyStr == <<>>

Return(v) == [kind |-> "return", exc |-> "none", value |-> v]
Raise(e) == [kind |-> "raise", exc |-> e, value |-> None]

\* dict.get(key, default)
Get(d, key, default) == IF key \in DOMAIN d THEN d[key] ELSE default

\* d[key] = value
SetItem(d, key, value) ==
    [k \in (DOMAIN d) \cup {key} |-> IF k = key THEN value ELSE d[k]]

\* bool(x) for x a dict or None
Truthy(x) == x # None /\ DOMAIN x # {}

\* str.partition(sep) for a one-character sep: <<head, sep, tail>>, and
\* <<s, "", "">> when sep does not occur in s.
partition(s, sep) ==
    IF \E i \in 1..Len(s) : s[i] = sep
    THEN LET i == CHOOSE j \in 1..Len(s) :
                      /\ s[j] = sep
                      /\ \A h \in 1..(j - 1) : s[h] # sep
         IN  <<SubSeq(s, 1, i - 1), <<sep>>, SubSeq(s, i + 1, Len(s))>>
    ELSE <<s, EmptyStr, EmptyStr>>

----------------------------------------------------------------------------
(* Game data strings *)

item_potion == <<"i", "t", "e", "m", "_", "p", "o", "t", "i", "o", "n">>
potion == <<"p", "o", "t", "i", "o", "n">>
elixir == <<"e", "l", "i", "x", "i", "r">>
mon_rattata == <<"m", "o", "n", "_", "r", "a", "t", "t", "a", "t", "a">>
rattata == <<"r", "a", "t", "t", "a", "t", "a">>

----------------------------------------------------------------------------
(* upgrade_save *)

\* fix_items: {key.partition("_")[2]: num for key, num in data.items()}.
\* When two keys of data are renamed to the same key the later one in the
\* dict's iteration order wins; the order is not fixed by the module, so
\* every result an order can give is in the set.
fix_items(data) ==
    LET newkeys == {partition(key, "_")[3] : key \in DOMAIN data}
    IN  {f \in [newkeys -> {data[key] : key \in DOMAIN data}] :
            \A nk \in newkeys :
                \E key \in DOMAIN data :
                    partition(key, "_")[3] = nk /\ f[nk] = data[key]}

\* The inner loop `for mon in mons: mon['slug'] = mon['slug'].partition("_")[2]`.
\* It stops with KeyError at the first entry without 'slug'; the entries
\* before it have been rewritten in place.
FirstWithoutSlug(mons) ==
    IF \E i \in 1..Len(mons) : "slug" \notin DOMAIN mons[i]
    THEN CHOOSE i \in 1..Len(mons) :
            /\ "slug" \notin DOMAIN mons[i]
            /\ \A h \in 1..(i - 1) : "slug" \in DOMAIN mons[h]
    ELSE Len(mons) + 1

fix_mons(mons) ==
    [i \in 1..Len(mons) |->
        IF i < FirstWithoutSlug(mons)
        THEN SetItem(mons[i], "slug", partition(mons[i]["slug"], "_")[3])
        ELSE mons[i]]

mons_raises(mons) == FirstWithoutSlug(mons) <= Len(mons)

\* upgrade_save(save_data): the set of <<outcome, save_data after the call>>.
\* save_data is mutated in place and is the object returned.
upgrade_save(sd) ==
    LET version == Get(sd, "version", 0)
    IN  IF version # 0
        THEN {<<Return(sd), sd>>}
        ELSE
          LET has_chest == "storage" \in DOMAIN sd
              chest == Get(sd, "storage", EmptyDict)
              top == Get(sd, "monsters", <<>>)
              cmons == Get(chest, "monsters", <<>>)
              \* the chest after `chest['items'] = ...` and the chest monster loop
              chest_after(items, do_mons) ==
                  LET c1 == SetItem(chest, "items", items)
                  IN  IF do_mons /\ "monsters" \in DOMAIN chest
                      THEN SetItem(c1, "monsters", fix_mons(cmons))
                      ELSE c1
              after(inv, items, do_cmons) ==
                  LET s1 == SetItem(sd, "inventory", inv)
                      s2 == IF has_chest
                            THEN SetItem(s1, "storage", chest_after(items, do_cmons))
                            ELSE s1
                  IN  IF "monsters" \in DOMAIN sd
                      THEN SetItem(s2, "monsters", fix_mons(top))
                      ELSE s2
          IN  {IF mons_raises(top)
               THEN <<Raise("KeyError"), after(inv, items, FALSE)>>
               ELSE IF mons_raises(cmons)
               THEN <<Raise("KeyError"), after(inv, items, TRUE)>>
               ELSE <<Return(after(inv, items, TRUE)), after(inv, items, TRUE)>> :
                 inv \in fix_items(Get(sd, "inventory", EmptyDict)),
                 items \in fix_items(Get(chest, "items", EmptyDict))}

----------------------------------------------------------------------------
(* Timestamps, TIME_FORMAT = "%Y-%m-%d %H:%M" *)

\* A `time` string is modelled by the sequence of the numbers it spells;
\* strftime(TIME_FORMAT) spells the five fields year, month, day, hour, minute.
strftime(dt) == <<dt.year, dt.month, dt.day, dt.hour, dt.minute>>

DaysInMonth(y, m) ==
    IF m \in {4, 6, 9, 11} THEN 30
    ELSE IF m # 2 THEN 31
    ELSE IF (y % 4 = 0 /\ y % 100 # 0) \/ y % 400 = 0 THEN 29
    ELSE 28

\* datetime.datetime.strptime(text, TIME_FORMAT): ValueError unless the text
\* spells five fields in range.
strptime(text) ==
    IF /\ Len(text) = 5
       /\ text[1] \in 1..9999
       /\ text[2] \in 1..12
       /\ text[3] \in 1..DaysInMonth(text[1], text[2])
       /\ text[4] \in 0..23
       /\ text[5] \in 0..59
    THEN Return([year |-> text[1], month |-> text[2], day |-> text[3],
                 hour |-> text[4], minute |-> text[5]])
    ELSE Raise("ValueError")

\* dt1 < dt2 on datetime objects
Before(a, b) ==
    LET x == <<a.year, a.month, a.day, a.hour, a.minute>>
        y == <<b.year, b.month, b.day, b.hour, b.minute>>
    IN  \E i \in 1..5 : x[i] < y[i] /\ \A h \in 1..(i - 1) : x[h] = y[h]

----------------------------------------------------------------------------
(* Codecs and slot files *)

NoFile == [exists |-> FALSE, stream |-> <<>>]
File(stream) == [exists |-> TRUE, stream |-> stream]

\* json.dumps(save_data, indent=4, separators=(',', ': ')) / cbor.dumps(save_data)
json_dumps(d) == [codec |-> "JSON", doc |-> d]
cbor_dumps(d) == [codec |-> "CBOR", doc |-> d]

\* json.load(fp) is json.loads(fp.read()): it consumes the stream from pos
\* to its end and parses what it read as one JSON document.
\* <<outcome, position of fp after the call>>
json_load(stream, pos) ==
    LET text == SubSeq(stream, pos, Len(stream))
    IN  <<IF Len(text) = 1 /\ text[1].codec = "JSON"
          THEN Return(text[1].doc)
          ELSE Raise("ValueError"),
          Len(stream) + 1>>

\* What `import cbor` gave: no module (ImportError), or a cbor whose decoder,
\* asked to read an item from an exhausted file, raises EOFError or ValueError.
CborBuilds == {"unavailable", "eof_EOFError", "eof_ValueError"}

\* cbor.load(fp): decodes one item starting at pos.
cbor_load(stream, pos) ==
    IF cbor = "unavailable" THEN Raise("NameError")
    ELSE IF pos > Len(stream)
    THEN (IF cbor = "eof_EOFError" THEN Raise("EOFError") ELSE Raise("ValueError"))
    ELSE IF stream[pos].codec = "CBOR" THEN Return(stream[pos].doc)
    ELSE Raise("ValueError")

\* open_save_file without its `except IOError` clause: the failure of open()
\* reaches the caller.
open_save_file_uncaught(slot, io_error) ==
    IF ~files[slot].exists \/ io_error
    THEN Raise("IOError")
    ELSE LET stream == files[slot].stream
             js == json_load(stream, 1)
         IN  IF js[1].kind = "return" THEN js[1]
             ELSE LET cb == cbor_load(stream, js[2])
                  IN  IF cb.kind = "return" THEN cb
                      ELSE IF cb.exc = "ValueError" THEN Return(EmptyDict)
                      ELSE cb

\* open_save_file(save_path) for the path of `slot`; io_error says whether
\* open() fails on a file that exists.
open_save_file(slot, io_error) ==
    IF ~files[slot].exists \/ io_error
    THEN Return(None)                       \* except IOError: return None
    ELSE LET stream == files[slot].stream
             js == json_load(stream, 1)
         IN  IF js[1].kind = "return" THEN js[1]
             ELSE LET cb == cbor_load(stream, js[2])
                  IN  IF cb.kind = "return" THEN cb
                      ELSE IF cb.exc = "ValueError" THEN Return(EmptyDict)
                      ELSE cb

Sentinel(sd) ==
    SetItem(SetItem(sd, "error", "Save file corrupted"), "player_name", "BROKEN SAVE!")

\* load(slot): the set of its possible outcomes
load(slot, io_error) ==
    LET opened == open_save_file(slot, io_error)
    IN  IF opened.kind = "raise" THEN {opened}
        ELSE IF Truthy(opened.value)
        THEN {r[1] : r \in upgrade_save(opened.value)}
        ELSE IF opened.value = None THEN {Return(None)}
        ELSE {Return(Sentinel(opened.value))}

\* One iteration of the loop of get_index_of_latest_save: Raise(e), or
\* Return(None) when the slot adds nothing, or Return(the parsed time).
scan_slot(slot_index, io_error) ==
    LET opened == open_save_file(slot_index + 1, io_error)
    IN  IF opened.kind = "raise" THEN opened
        ELSE IF opened.value = None THEN opened
        ELSE IF "time" \notin DOMAIN opened.value THEN Raise("KeyError")
        ELSE strptime(opened.value["time"])

\* get_index_of_latest_save(); io_errors[slot] says whether open() fails
get_index_of_latest_save(io_errors) ==
    LET scan == [i \in 0..(NumSlots - 1) |-> scan_slot(i, io_errors[i + 1])]
        raising == {i \in 0..(NumSlots - 1) : scan[i].kind = "raise"}
        times == {i \in 0..(NumSlots - 1) : scan[i].value # None}
    IN  IF raising # {}
        THEN scan[CHOOSE i \in raising : \A j \in raising : i <= j]
        ELSE IF times # {}
        THEN \* max(times, key=itemgetter(1)) keeps the first of equal maxima
             Return(Index(CHOOSE i \in times :
                        /\ \A j \in times : ~Before(scan[i].value, scan[j].value)
                        /\ \A j \in times : j < i => Before(scan[j].value, scan[i].value)))
        ELSE Return(None)

\* get_save_data(game): the state provider's mapping plus screenshot, time, version
get_save_data(state, screenshot, now) ==
    LET s1 == SetItem(state, "screenshot", screenshot.data)
        s2 == SetItem(s1, "screenshot_width", screenshot.width)
        s3 == SetItem(s2, "screenshot_height", screenshot.height)
        s4 == SetItem(s3, "time", strftime(now))
    IN  SetItem(s4, "version", CurrentVersion)

\* the text save() writes
encode(sd) == IF SAVE_METHOD = "CBOR" THEN cbor_dumps(sd) ELSE json_dumps(sd)

----------------------------------------------------------------------------
(* Inputs *)

\* what game.player1.get_state(game) can give
GameStates == {[inventory |-> (potion :> 1)]}

\* what capture_screenshot(game) gives, base64-encoded, with its size
Screenshots == {[data |-> "AAAA", width |-> 1, height |-> 1]}

\* datetime.datetime.now()
Clock == {[year |-> 2024, month |-> 3, day |-> 15, hour |-> 9, minute |-> m] :
             m \in 0..MaxMinute}

\* Files that reach the save directory from elsewhere: saves of older
\* versions of the game or of an installation with the other codec, files
\* cut short by a crash during write, hand-edited files.
Jan1 == <<2024, 1, 1, 10, 0>>
Mar15 == <<2024, 3, 15, 9, 30>>
LegacyRecord ==
    [inventory |-> (item_potion :> 3 @@ potion :> 1),
     monsters |-> <<[slug |-> mon_rattata, level |-> 5]>>,
     time |-> Jan1]
CurrentRecord(time) ==
    [inventory |-> (potion :> 1), time |-> time, version |-> CurrentVersion]
\* open() fails on at most one of the files one call opens
OneFailure == {{}} \cup {{s} : s \in Slots}

ExternalFiles ==
    { File(<<[codec |-> "JUNK", doc |-> EmptyDict]>>),     \* bytes of neither codec
      File(<<json_dumps(EmptyDict)>>),                     \* the JSON text {}
      File(<<json_dumps(LegacyRecord)>>),
      File(<<json_dumps(CurrentRecord(Mar15))>>),
      File(<<json_dumps(CurrentRecord(<<2024, 13, 1, 10, 0>>))>>),   \* month 13
      File(<<cbor_dumps(CurrentRecord(Mar15))>>) }

\* The fields of the decoded records handed to upgrade_save
ItemKeys == {item_potion, potion, elixir}
ChestKeys == {item_potion, potion}
MaxMons == 1         \* monster lists have at most MaxMons entries

Dicts(keys) == UNION {[ks -> 1..MaxQty] : ks \in SUBSET keys}
Monsters == {[slug |-> mon_rattata, level |-> 5], [slug |-> rattata, level |-> 5],
             [level |-> 5]}
MonLists == UNION {[1..n -> Monsters] : n \in 0..MaxMons}
Optional(field, values) == {EmptyDict} \cup {(field :> v) : v \in values}

Chests == {i @@ m : i \in Optional("items", Dicts(ChestKeys)),
                    m \in Optional("monsters", MonLists)}

----------------------------------------------------------------------------
(* The slot store *)

NoCall == [op |-> "none", slot |-> 0, io_errors |-> {}, arg |-> None,
           outcome |-> Return(None)]

Init ==
    /\ files = [s \in Slots |-> NoFile]
    /\ cbor \in CborBuilds
    \* try: import cbor / except ImportError: prepare.SAVE_METHOD = "JSON"
    /\ SAVE_METHOD \in (IF cbor = "unavailable" THEN {"JSON"} ELSE {"JSON", "CBOR"})
    /\ last_saved = [s \in Slots |-> None]
    /\ call = NoCall
    /\ save_data = EmptyDict
    /\ applied = 0

\* save(get_save_data(game), slot)
Save(slot, state, screenshot, now) ==
    LET sd == get_save_data(state, screenshot, now)
    IN  /\ files' = [files EXCEPT ![slot] = File(<<encode(sd)>>)]
        /\ last_saved' = [last_saved EXCEPT ![slot] = sd]
        /\ call' = [op |-> "save", slot |-> slot, io_errors |-> {}, arg |-> sd,
                    outcome |-> Return(None)]
        /\ UNCHANGED <<cbor, SAVE_METHOD, save_data, applied>>

\* load(slot)
Load(slot, io_error) ==
    /\ \E out \in load(slot, io_error) :
           call' = [op |-> "load", slot |-> slot,
                    io_errors |-> IF io_error THEN {slot} ELSE {},
                    arg |-> None, outcome |-> out]
    /\ UNCHANGED <<files, cbor, SAVE_METHOD, last_saved, save_data, applied>>

\* get_index_of_latest_save()
GetIndexOfLatestSave(failing) ==
    /\ call' = [op |-> "get_index_of_latest_save", slot |-> 0,
                io_errors |-> failing, arg |-> None,
                outcome |-> get_index_of_latest_save([s \in Slots |-> s \in failing])]
    /\ UNCHANGED <<files, cbor, SAVE_METHOD, last_saved, save_data, applied>>

\* Something other than save() puts a file into a slot, or removes it.
PlaceFile(slot, file) ==
    /\ files' = [files EXCEPT ![slot] = file]
    /\ last_saved' = [last_saved EXCEPT ![slot] = None]
    /\ call' = NoCall
    /\ UNCHANGED <<cbor, SAVE_METHOD, save_data, applied>>

RemoveFile(slot) ==
    /\ files[slot].exists
    /\ files' = [files EXCEPT ![slot] = NoFile]
    /\ last_saved' = [last_saved EXCEPT ![slot] = None]
    /\ call' = NoCall
    /\ UNCHANGED <<cbor, SAVE_METHOD, save_data, applied>>

Next ==
    \/ \E slot \in Slots, state \in GameStates, screenshot \in Screenshots, now \in Clock :
           Save(slot, state, screenshot, now)
    \/ \E slot \in Slots, io_error \in BOOLEAN : Load(slot, io_error)
    \/ \E failing \in OneFailure : GetIndexOfLatestSave(failing)
    \/ \E slot \in Slots, file \in ExternalFiles : PlaceFile(slot, file)
    \/ \E slot \in Slots : RemoveFile(slot)

Spec == Init /\ [][Next]_vars

----------------------------------------------------------------------------
(* The migration on its own *)

InitUpgrade ==
    /\ files = [s \in Slots |-> NoFile]
    /\ cbor = "unavailable"
    /\ SAVE_METHOD = "JSON"
    /\ last_saved = [s \in Slots |-> None]
    /\ call = NoCall
    \* a decoded record: each field present or absent
    /\ \E v \in Optional("version", {0, CurrentVersion}),
          i \in Optional("inventory", Dicts(ItemKeys)),
          s \in Optional("storage", Chests),
          m \in Optional("monsters", MonLists) :
           save_data = v @@ i @@ s @@ m
    /\ applied = 0

\* upgrade_save(save_data)
UpgradeSave ==
    /\ applied < MaxApply
    /\ \E r \in upgrade_save(save_data) :
           /\ save_data' = r[2]
           /\ call' = [op |-> "upgrade_save", slot |-> 0, io_errors |-> {},
                       arg |-> save_data, outcome |-> r[1]]
    /\ applied' = applied + 1
    /\ UNCHANGED <<files, cbor, SAVE_METHOD, last_saved>>

NextUpgrade == UpgradeSave

SpecUpgrade == InitUpgrade /\ [][NextUpgrade]_vars

----------------------------------------------------------------------------
(* Properties *)

\* The file of the slot holds exactly one document of one of the two codecs.
Decodable(slot) ==
    /\ files[slot].exists
    /\ Len(files[slot].stream) = 1
    /\ files[slot].stream[1].codec \in {"JSON", "CBOR"}
Corrupt(slot) == files[slot].exists /\ ~Decodable(slot)
Doc(slot) == files[slot].stream[1].doc
HasTime(slot) ==
    /\ Decodable(slot)
    /\ "time" \in DOMAIN Doc(slot)
    /\ strptime(Doc(slot)["time"]).kind = "return"
TimeOf(slot) == strptime(Doc(slot)["time"]).value

Called(op) == call.op = op
Returned == call.outcome.kind = "return"
Opened(slot) == slot \notin call.io_errors

\* C1: whenever at least one slot holds a decodable record with a well-formed
\* time, get_index_of_latest_save returns the identifier, in 1..3, of a slot
\* whose time is the maximum among the decodable slots.
C1_LatestIsSlotOfMaxTime ==
    (/\ Called("get_index_of_latest_save")
     /\ call.io_errors = {}
     /\ \E s \in Slots : HasTime(s))
    => /\ Returned
       /\ call.outcome.value # None
       /\ call.outcome.value.n \in Slots
       /\ HasTime(call.outcome.value.n)
       /\ \A s \in Slots :
              HasTime(s) => ~Before(TimeOf(call.outcome.value.n), TimeOf(s))

\* C2: get_index_of_latest_save never raises because of a slot that is absent
\* or corrupt, and returns None when no slot yields a readable record.
C2_LatestSkipsAbsentAndCorrupt ==
    (/\ Called("get_index_of_latest_save")
     \* every other slot is one the scan reads without raising
     /\ \A s \in Slots :
            \/ ~files[s].exists
            \/ Corrupt(s)
            \/ scan_slot(s - 1, ~Opened(s)).kind = "return")
    => /\ Returned
       /\ (\A s \in Slots : ~files[s].exists \/ Corrupt(s) \/ ~Opened(s))
              => call.outcome.value = None

\* C3: load of a slot whose file decodes under neither codec returns the
\* sentinel record (error "Save file corrupted", player_name "BROKEN SAVE!")
\* and raises nothing, whichever codec is configured or available.
C3_CorruptLoadGivesSentinel ==
    (Called("load") /\ Opened(call.slot) /\ Corrupt(call.slot))
    => call.outcome = Return([error |-> "Save file corrupted",
                              player_name |-> "BROKEN SAVE!"])

\* C4: load of a slot whose file does not exist, or cannot be opened, returns
\* None and does not raise.
C4_MissingLoadGivesNone ==
    (Called("load") /\ (~files[call.slot].exists \/ ~Opened(call.slot)))
    => call.outcome = Return(None)

\* load has returned None for a slot without a file while another slot has one
C4_Witness ==
    /\ Called("load")
    /\ ~files[call.slot].exists
    /\ call.outcome = Return(None)
    /\ \E s \in Slots : files[s].exists

\* C5: load of a slot whose file decodes to a record (the empty mapping
\* included) returns that record passed through upgrade_save, which is
\* neither None nor the corrupt-save sentinel.
C5_DecodableLoadGivesUpgradedRecord ==
    (Called("load") /\ Opened(call.slot) /\ Decodable(call.slot))
    => /\ Returned
       /\ \E r \in upgrade_save(Doc(call.slot)) : call.outcome = r[1]
       /\ call.outcome.value # None
       /\ "error" \notin DOMAIN call.outcome.value

\* C6: upgrade_save is idempotent: applied to a record it has returned, it
\* returns that record unchanged.
C6_UpgradeIdempotent ==
    (Called("upgrade_save") /\ Returned)
    => \A r \in upgrade_save(call.outcome.value) :
           r[1] = Return(call.outcome.value)

\* C7: the record upgrade_save returns for a record without `version` has
\* version 1.
C7_UpgradeSetsVersion ==
    (Called("upgrade_save") /\ Returned /\ "version" \notin DOMAIN call.arg)
    => /\ "version" \in DOMAIN call.outcome.value
       /\ call.outcome.value["version"] = CurrentVersion

NoUnderscore(s) == \A i \in 1..Len(s) : s[i] # "_"
KeptItems(before, after) ==
    \A key \in DOMAIN before :
        NoUnderscore(key) => key \in DOMAIN after /\ after[key] = before[key]
KeptSlugs(before, after) ==
    /\ Len(after) = Len(before)
    /\ \A i \in 1..Len(before) :
           ("slug" \in DOMAIN before[i] /\ NoUnderscore(before[i]["slug"]))
               => after[i] = before[i]

\* C8: the version 0 -> 1 migration leaves an inventory key, a chest item key
\* or a monster slug without underscore unchanged, with its quantity.
C8_NoUnderscoreIsKept ==
    (Called("upgrade_save") /\ Returned /\ Get(call.arg, "version", 0) = 0)
    => LET old == call.arg
           new == call.outcome.value
           oldchest == Get(old, "storage", EmptyDict)
           newchest == Get(new, "storage", EmptyDict)
       IN  /\ KeptItems(Get(old, "inventory", EmptyDict), Get(new, "inventory", EmptyDict))
           /\ KeptItems(Get(oldchest, "items", EmptyDict), Get(newchest, "items", EmptyDict))
           /\ KeptSlugs(Get(old, "monsters", <<>>), Get(new, "monsters", <<>>))
           /\ KeptSlugs(Get(oldchest, "monsters", <<>>), Get(newchest, "monsters", <<>>))

\* C9: after save calls with records built by get_save_data, under either
\* codec, load(s) returns the record of the latest save to slot s.
C9_LoadReturnsLatestSave ==
    (Called("load") /\ Opened(call.slot) /\ last_saved[call.slot] # None)
    => call.outcome = Return(last_saved[call.slot])

\* C10: upgrade_save returns a record for every decoded record, also when
\* fields are missing; it never fails.
C10_UpgradeTotal ==
    Called("upgrade_save") => Returned

====
